---- MODULE Spec2Model ----
(***************************************************************************)
(* A model of mu's graphical debugger mode (mu/modes/debugger.py):         *)
(* DebugMode, the controller that sits between the editor's UI and the     *)
(* debugger client (mu.debugger.client.Debugger) talking to the debuggee.  *)
(*                                                                         *)
(* Every handler of DebugMode is an operator from the state before the     *)
(* call to the state after it, translated from debugger.py; an action      *)
(* installs the handler's result.  The debugger client, the debuggee and   *)
(* the process are the environment: the client keeps the breakpoint index  *)
(* (bp_index), requests are fire-and-forget and their completion comes     *)
(* back later as a separate event.  UI lines (markers, selections) are     *)
(* 0-based, breakpoint lines 1-based.                                      *)
(*                                                                         *)
(* Events and signals of a link or process the controller has let go stay  *)
(* in flight and are delivered later, also into a following session.       *)
(* Margin clicks go to the displayed tab.                                  *)
(***************************************************************************)
EXTENDS Integers, Sequences, FiniteSets, TLC

\* ------------------------------------------------------------------ bounds
\* Number of source lines of every file: UI lines 0 .. MaxLine-1.
MaxLine == 2
\* Requests and events in flight on the link that the user may cause.
MaxQueue == 2
\* Processes the controller has let go by replacing its runner and that are
\* still alive or still owe their finished signal.
MaxLetGo == 2

\* ------------------------------------------------------------- vocabulary
Tabs == {"t1", "t2"}
Files == {"a.py", "b.py"}
NoTab == "none"
NoPath == "none"
None == 0
Held == 1
UILines == 0 .. (MaxLine - 1)
BpLines == 1 .. MaxLine
ActionNames == {"stop", "run", "step-over", "step-in", "step-out"}
Resume == {"continue", "next", "step", "return"}

VARIABLES
  runner,            \* DebugMode.runner: None or Held (the handle of the runner)
  debugger,          \* DebugMode.debugger: "unset" (never assigned), "none", "obj"
  bp_index,          \* the client's breakpoint index: [set, map]; set = the attribute exists
  proc,              \* the runner's process: "none" | "failed" | "alive" | "exited" | "reaped"
  orphaned,          \* number of live processes let go without being killed
  late_finished,     \* number of pending finished signals of processes let go
  dstate,            \* debuggee of the runner: "init" | "wait" | "run"
  reqs,              \* requests sent on the link, not yet handled by the debuggee
  evts,              \* link events in flight to the controller
  current_tab,       \* view.current_tab: a tab or NoTab (no tab is open)
  path,              \* tab.path
  markers,           \* tab -> UI lines showing the breakpoint marker
  breakpoint_lines,  \* tab.breakpoint_lines
  selection,         \* tab -> selected UI line, -1 after setSelection(0, 0, 0, 0)
  read_only,         \* view.set_read_only
  inspector,         \* the debug inspector pane is shown
  slots,             \* button_bar.slots[name] is enabled
  mode,              \* editor.mode
  status,            \* the last status message shown
  raised             \* the exception the step just taken raised in its handler, else "none"

vars == <<runner, debugger, bp_index, proc, orphaned, late_finished, dstate, reqs, evts,
          current_tab, path, markers, breakpoint_lines, selection, read_only, inspector,
          slots, mode, status, raised>>

\* The state as one value, for the handlers to map.
state ==
  [runner |-> runner, debugger |-> debugger, bp_index |-> bp_index, proc |-> proc,
   orphaned |-> orphaned, late_finished |-> late_finished, dstate |-> dstate,
   reqs |-> reqs, evts |-> evts, current_tab |-> current_tab, path |-> path,
   markers |-> markers, breakpoint_lines |-> breakpoint_lines, selection |-> selection,
   read_only |-> read_only, inspector |-> inspector, slots |-> slots, mode |-> mode,
   status |-> status, raised |-> raised]

\* The step to state s.
Install(s) ==
  /\ runner' = s.runner
  /\ debugger' = s.debugger
  /\ bp_index' = s.bp_index
  /\ proc' = s.proc
  /\ orphaned' = s.orphaned
  /\ late_finished' = s.late_finished
  /\ dstate' = s.dstate
  /\ reqs' = s.reqs
  /\ evts' = s.evts
  /\ current_tab' = s.current_tab
  /\ path' = s.path
  /\ markers' = s.markers
  /\ breakpoint_lines' = s.breakpoint_lines
  /\ selection' = s.selection
  /\ read_only' = s.read_only
  /\ inspector' = s.inspector
  /\ slots' = s.slots
  /\ mode' = s.mode
  /\ status' = s.status
  /\ raised' = s.raised

\* view.widgets: every open tab, in the view's order (current_tab is None
\* exactly when no tab is open).
widgets(s) == IF s.current_tab = NoTab THEN <<>> ELSE <<"t1", "t2">>

EmptyIndex == [f \in Files |-> [l \in BpLines |-> "none"]]
NoIndex == [set |-> FALSE, map |-> EmptyIndex]

Req(op, f, l) == [op |-> op, file |-> f, line |-> l]
\* live: the event comes from the client the controller holds now.
Evt(ev, f, l) == [ev |-> ev, file |-> f, line |-> l, live |-> TRUE]

\* The events in flight once their client is no longer the controller's.
Stale(q) == [i \in 1 .. Len(q) |-> [q[i] EXCEPT !.live = FALSE]]

\* The link carries a request only while the runner's process is up.
Connected(s) == s.runner # None /\ s.proc = "alive"

\* Debugger.breakpoints(filename): the file's line -> breakpoint mapping.
breakpoints(s, f) ==
  IF f \in Files THEN s.bp_index.map[f] ELSE [l \in BpLines |-> "none"]

\* The lines of a set, ascending, as a sequence (iteration over a set of small ints).
RECURSIVE SeqOf(_)
SeqOf(S) ==
  IF S = {} THEN <<>>
  ELSE LET m == CHOOSE x \in S : \A y \in S : x <= y
       IN <<m>> \o SeqOf(S \ {m})

\* A tab's file once the user has saved it (editor.save() names an unsaved tab).
FileOf(tab) == IF tab = "t1" THEN "a.py" ELSE "b.py"

\* ------------------------------------------------------------------ phase
\* The session phase, read off the controller's handles and the process:
\* Idle = no runner held; Finished = the process has exited; Starting = the
\* client has no breakpoint index yet (not bootstrapped); Paused = the
\* debuggee is halted at a line the controller has been told about and no
\* resume request is outstanding; Running otherwise.
Halted(s) ==
  /\ s.dstate = "wait"
  /\ \A i \in 1 .. Len(s.reqs) : s.reqs[i].op \notin Resume
  /\ \A i \in 1 .. Len(s.evts) : s.evts[i].live => s.evts[i].ev \notin {"line", "bootstrap"}

PhaseOf(s) ==
  IF s.runner = None THEN "Idle"
  ELSE IF s.proc \in {"exited", "reaped"} THEN "Finished"
  ELSE IF ~s.bp_index.set THEN "Starting"
  ELSE IF Halted(s) THEN "Paused"
  ELSE "Running"

Phase == PhaseOf(state)

\* ------------------------------------------------------------------- Init
Init ==
  /\ runner = None
  /\ debugger = "unset"
  /\ bp_index = NoIndex
  /\ proc = "none"
  /\ orphaned = 0
  /\ late_finished = 0
  /\ dstate = "init"
  /\ reqs = <<>>
  /\ evts = <<>>
  /\ current_tab \in {NoTab, "t1"}
  /\ path \in {[t \in Tabs |-> FileOf(t)], [t \in Tabs |-> IF t = "t1" THEN "a.py" ELSE NoPath]}
  /\ breakpoint_lines \in [Tabs -> SUBSET UILines]
  /\ \A t \in Tabs : (current_tab = NoTab \/ path[t] = NoPath) => breakpoint_lines[t] = {}
  /\ markers = breakpoint_lines
  /\ selection = [t \in Tabs |-> -1]
  /\ read_only = FALSE
  /\ inspector = FALSE
  /\ slots = [a \in ActionNames |-> TRUE]
  /\ mode = "debugger"
  /\ status = "none"
  /\ raised = "none"

\* --------------------------------------------------------------- finished
\* What finished() leaves on one tab: markers and breakpoint_lines re-derived
\* from the enabled breakpoints of the tab's file when the client has an index;
\* nothing otherwise (hasattr(None, 'bp_index') is False).
EnabledLines(s, tab) ==
  IF s.debugger = "obj" /\ s.bp_index.set
  THEN {l - 1 : l \in {k \in BpLines : breakpoints(s, s.path[tab])[k] = "en"}}
  ELSE {}

\* finished() without tab.setSelection(0, 0, 0, 0): the selection stays.
finished_keeps_selection(s) ==
  LET b == [s EXCEPT !.slots = [a \in ActionNames |-> IF a # "stop" THEN FALSE ELSE s.slots[a]],
                     !.status = "finished"]
      ws == widgets(s)
  IN IF s.debugger = "unset" /\ ws # <<>>
     THEN [b EXCEPT !.markers[ws[1]] = {},
                    !.breakpoint_lines[ws[1]] = {},
                    !.raised = "AttributeError"]
     ELSE [b EXCEPT !.markers = [t \in Tabs |-> IF ws # <<>> THEN EnabledLines(s, t) ELSE @[t]],
                    !.breakpoint_lines =
                        [t \in Tabs |-> IF ws # <<>> THEN EnabledLines(s, t) ELSE @[t]],
                    !.raised = "none"]

\* finished(code, status)
finished(s) ==
  LET b == [s EXCEPT !.slots = [a \in ActionNames |-> IF a # "stop" THEN FALSE ELSE s.slots[a]],
                     !.status = "finished"]
      ws == widgets(s)
  IN IF s.debugger = "unset" /\ ws # <<>>
     THEN \* self.debugger raises on the first tab, after that tab was cleared
          [b EXCEPT !.markers[ws[1]] = {},
                    !.breakpoint_lines[ws[1]] = {},
                    !.selection[ws[1]] = -1,
                    !.raised = "AttributeError"]
     ELSE [b EXCEPT !.markers = [t \in Tabs |-> IF ws # <<>> THEN EnabledLines(s, t) ELSE @[t]],
                    !.breakpoint_lines =
                        [t \in Tabs |-> IF ws # <<>> THEN EnabledLines(s, t) ELSE @[t]],
                    !.selection = [t \in Tabs |-> IF ws # <<>> THEN -1 ELSE @[t]],
                    !.raised = "none"]

\* ------------------------------------------------------------------- stop
\* editor.change_mode('python') and editor.mode = 'python': the editor
\* rebuilds the button bar for the mode and shows the change as its status.
change_mode(s) ==
  [s EXCEPT !.mode = "python",
            !.slots = [a \in ActionNames |-> TRUE],
            !.status = "python"]

\* The `if self.runner:` block of stop() with a wait that delivers nothing.
kill_without_signal(s) ==
  [s EXCEPT !.proc = "none",
            !.runner = None,
            !.debugger = "none",
            !.bp_index = NoIndex,
            !.dstate = "init",
            !.reqs = <<>>,
            !.inspector = FALSE]

\* runner.process.kill() and waitForFinished(), then the handles are dropped.
\* The wait emits the finished signal of a process that has not delivered it
\* yet, so finished() runs inside it, with the runner and the client held.
kill(s) ==
  [(IF s.proc \in {"alive", "exited"} THEN finished([s EXCEPT !.proc = "reaped"]) ELSE s)
     EXCEPT !.proc = "none",
            !.runner = None,
            !.debugger = "none",
            !.bp_index = NoIndex,
            !.dstate = "init",
            !.reqs = <<>>,
            !.inspector = FALSE]

\* stop() without its `if self.runner:` guard.
stop_unguarded(s) ==
  [change_mode(kill(s)) EXCEPT !.read_only = FALSE, !.raised = "none"]

\* stop() that forgets view.set_read_only(False).
stop_stays_read_only(s) ==
  LET k == IF s.runner # None THEN kill(s) ELSE s
  IN [change_mode(k) EXCEPT !.raised = "none"]

\* stop()
stop(s) ==
  LET k == IF s.runner # None THEN kill(s) ELSE s
  IN [change_mode(k) EXCEPT !.read_only = FALSE, !.raised = "none"]

\* button_stop(event)
button_stop(s) == stop(s)

\* ------------------------------------------------------------------ start
\* add_python3_runner() .. debugger.start(): the process is spawned and the
\* client made.  launched: the process comes up (waitForStarted's result is
\* not looked at).  A runner still held is replaced without being killed;
\* what its link and its process still have in flight stays in flight.
launch(s, tab, launched) ==
  [s EXCEPT !.status = "running",
            !.runner = Held,
            !.proc = IF launched THEN "alive" ELSE "failed",
            !.orphaned = s.orphaned + (IF s.proc = "alive" THEN 1 ELSE 0),
            !.late_finished = s.late_finished + (IF s.proc = "exited" THEN 1 ELSE 0),
            !.inspector = TRUE,
            !.read_only = TRUE,
            !.debugger = "obj",
            !.bp_index = NoIndex,
            !.dstate = "init",
            !.reqs = <<>>,
            !.evts = Stale(s.evts),
            !.raised = "none"]

\* start() that goes on without looking at tab.path after the save.
start_without_path_check(s, launched, saved, written) ==
  IF s.current_tab = NoTab THEN stop(s)
  ELSE IF ~written THEN [s EXCEPT !.raised = "OSError"]
  ELSE launch(s, s.current_tab, launched)

\* start(); saved: editor.save() gives an unsaved tab a path; written: the
\* tab is not modified, or open(tab.path, 'w') and the write succeed.
start(s, launched, saved, written) ==
  IF s.current_tab = NoTab THEN stop(s)
  ELSE LET tab == s.current_tab
           p == IF s.path[tab] = NoPath /\ saved THEN FileOf(tab) ELSE s.path[tab]
           t == [s EXCEPT !.path[tab] = p]
       IN IF p = NoPath THEN stop(t)
          ELSE IF ~written THEN [t EXCEPT !.raised = "OSError"]
          ELSE launch(t, tab, launched)

\* ---------------------------------------------------------------- buttons
\* A request on the link: self.debugger.<request>(...).  Without a client the
\* attribute access fails; a request on a link that is not connected fails
\* with LinkError.
send(s, r) ==
  IF s.debugger # "obj" THEN [s EXCEPT !.raised = "AttributeError"]
  ELSE IF ~Connected(s) THEN [s EXCEPT !.raised = "LinkError"]
  ELSE [s EXCEPT !.reqs = Append(@, r), !.raised = "none"]

button_continue(s) == send(s, Req("continue", "", 0))
button_step_over(s) == send(s, Req("next", "", 0))
button_step_in(s) == send(s, Req("step", "", 0))
button_step_out(s) == send(s, Req("return", "", 0))

\* ------------------------------------------------------ toggle_breakpoint
\* toggle_breakpoint that asks for enable where it should ask for disable.
toggle_never_disables(s, line, tab) ==
  IF s.debugger # "obj" \/ ~s.bp_index.set
  THEN [s EXCEPT !.raised = "AttributeError"]
  ELSE LET bps == breakpoints(s, s.path[tab]) IN
       IF line \in s.markers[tab]
       THEN IF bps[line + 1] = "none"
            THEN [s EXCEPT !.raised = "KeyError"]
            ELSE LET t == send(s, Req("enable", s.path[tab], line + 1))
                 IN IF t.raised # "none" THEN t
                    ELSE [t EXCEPT !.markers[tab] = @ \ {line}]
       ELSE LET m == [s EXCEPT !.markers[tab] = @ \cup {line}]
            IN IF bps[line + 1] # "none"
               THEN send(m, Req("enable", s.path[tab], line + 1))
               ELSE send(m, Req("break", s.path[tab], line + 1))

\* toggle_breakpoint that creates a breakpoint whenever it adds a marker.
toggle_always_creates(s, line, tab) ==
  IF s.debugger # "obj" \/ ~s.bp_index.set
  THEN [s EXCEPT !.raised = "AttributeError"]
  ELSE LET bps == breakpoints(s, s.path[tab]) IN
       IF line \in s.markers[tab]
       THEN IF bps[line + 1] = "none"
            THEN [s EXCEPT !.raised = "KeyError"]
            ELSE LET t == send(s, Req("disable", s.path[tab], line + 1))
                 IN IF t.raised # "none" THEN t
                    ELSE [t EXCEPT !.markers[tab] = @ \ {line}]
       ELSE LET m == [s EXCEPT !.markers[tab] = @ \cup {line}]
            IN send(m, Req("break", s.path[tab], line + 1))

toggle_breakpoint(s, line, tab) ==
  IF s.debugger # "obj" \/ ~s.bp_index.set
  THEN \* self.debugger.breakpoints(...) fails: no client, or no index yet
       [s EXCEPT !.raised = "AttributeError"]
  ELSE LET bps == breakpoints(s, s.path[tab]) IN
       IF line \in s.markers[tab]
       THEN IF bps[line + 1] = "none"
            THEN [s EXCEPT !.raised = "KeyError"]
            ELSE LET t == send(s, Req("disable", s.path[tab], line + 1))
                 IN IF t.raised # "none" THEN t
                    ELSE [t EXCEPT !.markers[tab] = @ \ {line}]
       ELSE LET m == [s EXCEPT !.markers[tab] = @ \cup {line}]
            IN IF bps[line + 1] # "none"
               THEN send(m, Req("enable", s.path[tab], line + 1))
               ELSE send(m, Req("break", s.path[tab], line + 1))

\* ----------------------------------------------------- debug_on_bootstrap
\* The create_breakpoint calls of debug_on_bootstrap, in order: every tab of
\* view.widgets, every line of its breakpoint_lines, as (path, line + 1).
RECURSIVE CreatesOf(_, _)
CreatesOf(s, tabs) ==
  IF tabs = <<>> THEN <<>>
  ELSE LET t == Head(tabs)
           ls == SeqOf(s.breakpoint_lines[t])
       IN [i \in 1 .. Len(ls) |-> Req("break", s.path[t], ls[i] + 1)]
            \o CreatesOf(s, Tail(tabs))

\* Requests sent one after the other; the first that fails ends the handler.
RECURSIVE sendAll(_, _)
sendAll(s, rs) ==
  IF rs = <<>> THEN [s EXCEPT !.raised = "none"]
  ELSE LET t == send(s, Head(rs))
       IN IF t.raised # "none" THEN t ELSE sendAll(t, Tail(rs))

\* debug_on_bootstrap that resumes before it sets the breakpoints.
bootstrap_runs_first(s) ==
  sendAll(s, <<Req("continue", "", 0)>> \o CreatesOf(s, widgets(s)))

debug_on_bootstrap(s) ==
  sendAll(s, CreatesOf(s, widgets(s)) \o <<Req("continue", "", 0)>>)

\* ------------------------------------------- breakpoint and line events
\* breakpoint: the client's Breakpoint, [file, line].
\* debug_on_breakpoint_enable that takes the event's line as the UI line.
enable_at_event_line(s, breakpoint) ==
  IF s.current_tab = NoTab THEN [s EXCEPT !.raised = "AttributeError"]
  ELSE [s EXCEPT !.markers[s.current_tab] = @ \cup {breakpoint.line},
                 !.raised = "none"]

debug_on_breakpoint_enable(s, breakpoint) ==
  IF s.current_tab = NoTab THEN [s EXCEPT !.raised = "AttributeError"]
  ELSE [s EXCEPT !.markers[s.current_tab] = @ \cup {breakpoint.line - 1},
                 !.raised = "none"]

debug_on_breakpoint_disable(s, breakpoint) ==
  IF s.current_tab = NoTab THEN [s EXCEPT !.raised = "AttributeError"]
  ELSE [s EXCEPT !.markers[s.current_tab] = @ \ {breakpoint.line - 1},
                 !.raised = "none"]

debug_on_line(s, filename, line) ==
  IF s.current_tab = NoTab THEN [s EXCEPT !.raised = "AttributeError"]
  ELSE [s EXCEPT !.selection[s.current_tab] = line - 1, !.raised = "none"]

\* ------------------------------------------------- stack, postmortem, inert
\* debug_on_stack: frame 0's locals go to the inspector; the controller's own
\* state is not touched.
\* stack: "frames" (a frame 0 with locals), "empty" (no frame) or a frame 0
\* without locals; stack[0][1]['locals'] fails on the last two.
debug_on_stack(s, stack) ==
  [s EXCEPT !.raised = IF stack = "frames" THEN "none"
                       ELSE IF stack = "empty" THEN "IndexError"
                       ELSE "KeyError"]

\* debug_on_postmortem that ends the session.
postmortem_stops(s) == stop(s)

\* debug_on_postmortem: prints and logs.
debug_on_postmortem(s) == [s EXCEPT !.raised = "none"]

\* debug_on_info / _warning / _error: the message becomes the status.
debug_on_info(s) == [s EXCEPT !.status = "info", !.raised = "none"]
debug_on_warning(s) == [s EXCEPT !.status = "warning", !.raised = "none"]
debug_on_error(s) == [s EXCEPT !.status = "error", !.raised = "none"]

\* The events of those three handlers.
Messages == {"info", "warning", "error"}

\* The handlers whose body is `pass`.
debug_on_breakpoint_ignore(s) == [s EXCEPT !.raised = "none"]
debug_on_breakpoint_clear(s) == [s EXCEPT !.raised = "none"]
debug_on_restart(s) == [s EXCEPT !.raised = "none"]
debug_on_call(s) == [s EXCEPT !.raised = "none"]
debug_on_return(s) == [s EXCEPT !.raised = "none"]
debug_on_exception(s) == [s EXCEPT !.raised = "none"]

\* The events of those handlers.
Reports == {"stack", "postmortem", "ignore", "clear", "restart", "call", "return", "exception"}

\* The stacks the debuggee sends: with frames, or none at all.
StackShapes == {"frames", "empty"}

\* The report events as the link carries them; a stack event carries its shape.
ReportEvents ==
  {Evt(ev, "", 0) : ev \in Reports \ {"stack"}} \cup {Evt("stack", sh, 0) : sh \in StackShapes}

\* ------------------------------------------------------------ environment
\* The debuggee handles the oldest request.  A breakpoint request is answered
\* by an enable / disable event for that breakpoint (create re-uses and
\* enables a breakpoint the line already has), or by an error when it names
\* no file; a resume request sets a waiting debuggee running.
handle(s) ==
  LET r == Head(s.reqs)
      t == [s EXCEPT !.reqs = Tail(@), !.raised = "none"]
  IN IF r.op \in Resume THEN [t EXCEPT !.dstate = "run"]
     ELSE IF r.file \notin Files
     THEN \* a breakpoint for no file: the debuggee reports an error
          [t EXCEPT !.evts = Append(@, Evt("error", "", 0))]
     ELSE [t EXCEPT !.evts = Append(@,
             Evt(IF r.op = "disable" THEN "disable" ELSE "enable", r.file, r.line))]

\* The client's side of an event: its index follows the debuggee.  Once the
\* controller has dropped the client, the event updates the dropped object.
ClientIndex(s, e) ==
  IF s.debugger # "obj" \/ ~e.live THEN s.bp_index
  ELSE IF e.ev = "bootstrap" THEN [set |-> TRUE, map |-> EmptyIndex]
  ELSE IF e.ev = "enable" THEN [s.bp_index EXCEPT !.map[e.file][e.line] = "en"]
  ELSE IF e.ev = "disable" THEN [s.bp_index EXCEPT !.map[e.file][e.line] = "dis"]
  ELSE s.bp_index

\* The oldest event in flight is delivered: the client updates its index and
\* calls the view's handler.
deliver(s) ==
  LET e == Head(s.evts)
      t == [s EXCEPT !.evts = Tail(@), !.bp_index = ClientIndex(s, e)]
  IN CASE e.ev = "bootstrap" -> debug_on_bootstrap(t)
       [] e.ev = "enable" -> debug_on_breakpoint_enable(t, [file |-> e.file, line |-> e.line])
       [] e.ev = "disable" -> debug_on_breakpoint_disable(t, [file |-> e.file, line |-> e.line])
       [] e.ev = "line" -> debug_on_line(t, e.file, e.line)
       [] e.ev = "stack" -> debug_on_stack(t, e.file)
       [] e.ev = "info" -> debug_on_info(t)
       [] e.ev = "warning" -> debug_on_warning(t)
       [] e.ev = "error" -> debug_on_error(t)
       [] e.ev = "postmortem" -> debug_on_postmortem(t)
       [] e.ev = "ignore" -> debug_on_breakpoint_ignore(t)
       [] e.ev = "clear" -> debug_on_breakpoint_clear(t)
       [] e.ev = "restart" -> debug_on_restart(t)
       [] e.ev = "call" -> debug_on_call(t)
       [] e.ev = "return" -> debug_on_return(t)
       [] e.ev = "exception" -> debug_on_exception(t)

\* ---------------------------------------------------------------- actions
\* A step of the user stays within the bound on what is in flight.
Within(s, t) == Len(t.reqs) > Len(s.reqs) => Len(t.reqs) + Len(t.evts) <= MaxQueue

\* The editor enters the debugger mode before it calls start(): the mode is
\* 'debugger' throughout start(), which itself never sets it and leaves it
\* only through stop().
Entered(s) == [s EXCEPT !.mode = "debugger"]

\* The user starts a session from Idle and the process comes up.
Start ==
  /\ runner = None
  /\ \E saved \in BOOLEAN, written \in BOOLEAN :
       Install(start(Entered(state), TRUE, saved, written))

\* The same, and the process fails to start.
StartFails ==
  /\ runner = None
  /\ \E saved \in BOOLEAN : Install(start(Entered(state), FALSE, saved, TRUE))

\* start() is called while a runner is held: the code has no guard for it.
Restart ==
  /\ runner # None
  /\ proc \in {"alive", "exited"} => orphaned + late_finished < MaxLetGo
  /\ \E launched \in BOOLEAN, saved \in BOOLEAN, written \in BOOLEAN :
       Install(start(Entered(state), launched, saved, written))

Stop == Install(button_stop(state))

Continue == Within(state, button_continue(state)) /\ Install(button_continue(state))
StepOver == Within(state, button_step_over(state)) /\ Install(button_step_over(state))
StepIn == Within(state, button_step_in(state)) /\ Install(button_step_in(state))
StepOut == Within(state, button_step_out(state)) /\ Install(button_step_out(state))

\* A click in the margin of the displayed tab.
Toggle ==
  \E line \in UILines :
    /\ current_tab # NoTab
    /\ Within(state, toggle_breakpoint(state, line, current_tab))
    /\ Install(toggle_breakpoint(state, line, current_tab))

\* The debuggee connects and announces itself, then waits for a command.
announce(s) ==
  [s EXCEPT !.dstate = "wait",
            !.evts = Append(@, Evt("bootstrap", "", 0)),
            !.raised = "none"]

DebuggeeBootstrap ==
  /\ Connected(state)
  /\ dstate = "init"
  /\ Len(evts) < MaxQueue
  /\ Install(announce(state))

DebuggeeHandle ==
  /\ Connected(state)
  /\ dstate # "init"
  /\ reqs # <<>>
  /\ Install(handle(state))

\* The running debuggee halts at a line and reports it.
DebuggeePause ==
  \E f \in Files, l \in BpLines :
    /\ Connected(state)
    /\ dstate = "run"
    /\ Len(reqs) + Len(evts) < MaxQueue
    /\ Install([state EXCEPT !.dstate = "wait",
                             !.evts = Append(@, Evt("line", f, l)),
                             !.raised = "none"])

\* The debuggee reports its stack, a call, a return, an exception, ...
DebuggeeReport ==
  \E e \in ReportEvents :
    /\ Connected(state)
    /\ dstate # "init"
    /\ Len(reqs) + Len(evts) < MaxQueue
    /\ Install([state EXCEPT !.evts = Append(@, e), !.raised = "none"])

\* The debuggee sends an informative, a warning or an error message.
DebuggeeMessage ==
  \E ev \in Messages :
    /\ Connected(state)
    /\ dstate # "init"
    /\ Len(reqs) + Len(evts) < MaxQueue
    /\ Install([state EXCEPT !.evts = Append(@, Evt(ev, "", 0)), !.raised = "none"])

\* The runner's process exits on its own; its finished signal is now pending.
ProcessExit ==
  /\ Connected(state)
  /\ Install([state EXCEPT !.proc = "exited", !.raised = "none"])

\* The finished signal of the runner's process reaches DebugMode.finished.
Finished ==
  /\ runner # None
  /\ proc = "exited"
  /\ Install(finished([state EXCEPT !.proc = "reaped"]))

\* A process the controller replaced without killing it exits.
OrphanExit ==
  /\ orphaned > 0
  /\ Install([state EXCEPT !.orphaned = @ - 1, !.late_finished = @ + 1, !.raised = "none"])

\* The finished signal of a process the controller let go reaches it.
LateFinished ==
  /\ late_finished > 0
  /\ Install(finished([state EXCEPT !.late_finished = @ - 1]))

Deliver ==
  /\ evts # <<>>
  /\ Install(deliver(state))

\* The user displays another tab.
SwitchTab ==
  \E t \in Tabs :
    /\ current_tab # NoTab
    /\ t # current_tab
    /\ Install([state EXCEPT !.current_tab = t, !.raised = "none"])

Next ==
  \/ Start
  \/ StartFails
  \/ Restart
  \/ Stop
  \/ Continue
  \/ StepOver
  \/ StepIn
  \/ StepOut
  \/ Toggle
  \/ DebuggeeBootstrap
  \/ DebuggeeHandle
  \/ DebuggeePause
  \/ DebuggeeReport
  \/ DebuggeeMessage
  \/ ProcessExit
  \/ Finished
  \/ OrphanExit
  \/ LateFinished
  \/ Deliver
  \/ SwitchTab

Spec == Init /\ [][Next]_vars

\* The breakpoint side of the controller: margin clicks and breakpoint events
\* over sessions that are started and stopped, without stepping.
NextToggle ==
  \/ Start
  \/ Stop
  \/ Toggle
  \/ DebuggeeBootstrap
  \/ DebuggeeHandle
  \/ Deliver
  \/ SwitchTab

SpecToggle == Init /\ [][NextToggle]_vars

\* The session side: start, stop, the command buttons, stepping and the
\* process's end, without margin clicks.
NextSession ==
  \/ Start
  \/ StartFails
  \/ Restart
  \/ Stop
  \/ Continue
  \/ StepOver
  \/ StepIn
  \/ StepOut
  \/ DebuggeeBootstrap
  \/ DebuggeeHandle
  \/ DebuggeePause
  \/ ProcessExit
  \/ Finished
  \/ OrphanExit
  \/ LateFinished
  \/ Deliver
  \/ SwitchTab

\* No breakpoint is set when the editor enters the debugger.
InitBare == Init /\ breakpoint_lines = [t \in Tabs |-> {}]

SpecSession == InitBare /\ [][NextSession]_vars

\* Sessions from start to the process's end with the breakpoints the tabs
\* bring along, without margin clicks and stepping.
NextBootstrap ==
  \/ Start
  \/ Stop
  \/ DebuggeeBootstrap
  \/ DebuggeeHandle
  \/ ProcessExit
  \/ Finished
  \/ Deliver
  \/ SwitchTab

SpecBootstrap == Init /\ [][NextBootstrap]_vars

\* The events without effect, over sessions that pause, resume, end and are
\* stopped.
NextInert ==
  \/ Start
  \/ Stop
  \/ Continue
  \/ DebuggeeBootstrap
  \/ DebuggeeHandle
  \/ DebuggeePause
  \/ DebuggeeReport
  \/ DebuggeeMessage
  \/ ProcessExit
  \/ Finished
  \/ Deliver

SpecInert == InitBare /\ [][NextInert]_vars

\* Margin clicks, halts at lines and resumes in sessions that end with the
\* process or with the stop button, one tab displayed throughout.
NextResync ==
  \/ Start
  \/ Stop
  \/ Continue
  \/ StepOver
  \/ StepIn
  \/ StepOut
  \/ Toggle
  \/ DebuggeeBootstrap
  \/ DebuggeeHandle
  \/ DebuggeePause
  \/ ProcessExit
  \/ Finished
  \/ Deliver

SpecResync == Init /\ [][NextResync]_vars

\* The breakpoint side again, from tabs that bring no breakpoint along: every
\* breakpoint there is comes from a margin click in a session.
SpecPersist == InitBare /\ [][NextToggle]_vars

\* ================================================================= claims

\* ---- C9 ----------------------------------------------------------------
\* C9: stop() called while the controller is Idle is a no-op on the
\* controller: the phase, the runner, the client, its index, the process and
\* the link's traffic are what they were; no process is killed or waited for.
C9_StopIdleNoop ==
  Phase = "Idle" =>
    LET t == stop(state)
    IN /\ PhaseOf(t) = "Idle"
       /\ t.runner = runner
       /\ t.debugger = debugger
       /\ t.bp_index = bp_index
       /\ t.proc = proc
       /\ t.orphaned = orphaned
       /\ t.late_finished = late_finished
       /\ t.reqs = reqs
       /\ t.evts = evts
       /\ t.raised = "none"

\* stop() has run while Idle, before any session: only stop() sets the mode
\* to 'python', and the client was never assigned.
C9_Witness ==
  /\ Phase = "Idle"
  /\ debugger = "unset"
  /\ mode = "python"
  /\ status = "python"
  /\ ~read_only

\* ---- C8 ----------------------------------------------------------------
\* C8: stop() in a phase other than Idle ends the runner's process, drops
\* the runner and the client, turns read-only off, removes the inspector and
\* leaves the controller Idle.
C8_StopEndsSession ==
  Phase # "Idle" =>
    LET t == stop(state)
    IN /\ PhaseOf(t) = "Idle"
       /\ t.runner = None
       /\ t.proc = "none"
       /\ t.debugger = "none"
       /\ t.reqs = <<>>
       /\ ~t.read_only
       /\ ~t.inspector
       /\ t.raised = "none"

\* A session was started and stopped.
C8_Witness ==
  /\ Phase = "Idle"
  /\ debugger = "none"
  /\ status = "python"
  /\ mode = "python"
  /\ \A a \in ActionNames : slots[a]
  /\ ~read_only
  /\ ~inspector

\* ---- C10 ---------------------------------------------------------------
\* C10: a run / step_over / step_into / step_return command issued while the
\* phase is Idle, Starting or Finished raises nothing and leaves the phase as
\* it is.
Commands(s) == {button_continue(s), button_step_over(s), button_step_in(s), button_step_out(s)}

C10_CommandGuard ==
  Phase \in {"Idle", "Starting", "Finished"} =>
    \A t \in Commands(state) : t.raised = "none" /\ PhaseOf(t) = Phase

\* ---- C7 ----------------------------------------------------------------
\* The line event that is next to be delivered, when the controller is
\* Running and nothing else stands between it and Paused.
LineArrives ==
  /\ Phase = "Running"
  /\ Len(evts) = 1
  /\ Head(evts).ev = "line"
  /\ Head(evts).live
  /\ \A i \in 1 .. Len(reqs) : reqs[i].op \notin Resume

\* C7: on_line(file, line) received while Running leaves the controller
\* Paused and the selection of that file's tab on UI line (line - 1).
C7_OnLine ==
  LineArrives =>
    LET e == Head(evts)
        t == deliver(state)
    IN /\ PhaseOf(t) = "Paused"
       /\ t.raised = "none"
       /\ \E tab \in Tabs : path[tab] = e.file /\ t.selection[tab] = e.line - 1

\* ---- C5 ----------------------------------------------------------------
\* The process has ended, finished() has run and nothing is left for the
\* link or the process to deliver.
FinishedAtRest ==
  /\ status = "finished"
  /\ evts = <<>>
  /\ late_finished = 0
  /\ proc # "exited"

\* C5: once the termination event has been handled and nothing is left to
\* deliver, the controller is Idle and holds neither a runner nor a client.
C5_IdleAfterFinished ==
  FinishedAtRest => (Phase = "Idle" /\ runner = None /\ debugger # "obj")

\* ---- toggles ------------------------------------------------------------
\* A tab with a file is displayed and its session can take a toggle.
CanToggle ==
  /\ current_tab # NoTab
  /\ path[current_tab] # NoPath
  /\ Connected(state)
  /\ bp_index.set

\* As CanToggle, with nothing in flight on the link.
ToggleReady == CanToggle /\ reqs = <<>> /\ evts = <<>>

\* The request a handler has just appended.
Last(q) == q[Len(q)]

C2_RapidDoubleToggle ==
  \A L \in UILines :
    LET a == toggle_breakpoint(state, L, current_tab)
    IN (CanToggle /\ a.raised = "none") =>
         LET b == toggle_breakpoint(a, L, current_tab)
         IN /\ b.raised = "none"
            /\ (L \in b.markers[current_tab]) = (L \in markers[current_tab])

\* ---- C3 ----------------------------------------------------------------
\* C3: a toggle asks for a new breakpoint only at a (file, line) that has
\* none in the store; at a line whose breakpoint is disabled it asks for that
\* breakpoint to be enabled, and once the event is in the store still holds
\* one breakpoint there, enabled.  The creates of one bootstrap are for
\* distinct (file, line) pairs.
C3_SingleBreakpointPerLine ==
  /\ \A L \in UILines :
       LET a == toggle_breakpoint(state, L, current_tab)
           f == path[current_tab]
       IN (CanToggle /\ a.raised = "none") =>
            /\ Len(a.reqs) = Len(reqs) + 1
            /\ Last(a.reqs).op = "break" => bp_index.map[f][L + 1] = "none"
            /\ (bp_index.map[f][L + 1] = "dis" /\ L \notin markers[current_tab]) =>
                 /\ Last(a.reqs) = Req("enable", f, L + 1)
                 /\ LET u == deliver(handle([a EXCEPT !.reqs = <<Last(a.reqs)>>,
                                                      !.evts = <<>>]))
                    IN u.bp_index = [bp_index EXCEPT !.map[f][L + 1] = "en"]
  /\ (evts # <<>> /\ Head(evts).ev = "bootstrap" /\ Connected(state)) =>
       LET t == deliver(state)
           new == SubSeq(t.reqs, Len(reqs) + 1, Len(t.reqs))
       IN \A i, j \in 1 .. Len(new) :
            (new[i].op = "break" /\ new[j].op = "break" /\ i # j) =>
              <<new[i].file, new[i].line>> # <<new[j].file, new[j].line>>

\* A toggle has asked for an existing breakpoint to be enabled again.
C3_Witness ==
  /\ CanToggle
  /\ \E i \in 1 .. Len(reqs) :
       /\ reqs[i].op = "enable"
       /\ bp_index.map[reqs[i].file][reqs[i].line] = "dis"

\* ---- C4 ----------------------------------------------------------------
\* C4: a toggle at UI line L sends its request for line L + 1 of the tab's
\* file, and the event that answers it changes the marker of UI line L and of
\* no other line.
C4_CoordinateSymmetry ==
  \A L \in UILines :
    LET a == toggle_breakpoint(state, L, current_tab)
    IN (CanToggle /\ a.raised = "none") =>
         LET r == Last(a.reqs)
             h == handle([a EXCEPT !.reqs = <<r>>, !.evts = <<>>])
             u == deliver(h)
         IN /\ r.line = L + 1
            /\ r.file = path[current_tab]
            /\ h.evts = <<Evt(IF r.op = "disable" THEN "disable" ELSE "enable",
                              path[current_tab], L + 1)>>
            /\ u.raised = "none"
            /\ (L \in u.markers[current_tab]) = (r.op # "disable")
            /\ \A t \in Tabs, l \in 0 .. MaxLine :
                 <<t, l>> # <<current_tab, L>> =>
                   ((l \in u.markers[t]) = (l \in a.markers[t]))

\* A toggle at a line that had no marker when the session started has been
\* answered: the store has the breakpoint at L + 1, the marker is at L.
C4_Witness ==
  /\ ToggleReady
  /\ \E L \in UILines :
       /\ L \notin breakpoint_lines[current_tab]
       /\ L \in markers[current_tab]
       /\ bp_index.map[path[current_tab]][L + 1] = "en"

\* ---- C6 ----------------------------------------------------------------
\* The (file, line) pairs the bootstrap has to set: every line of every open
\* tab's breakpoint_lines, 1-based.
ToSet ==
  {<<path[x[1]], x[2] + 1>> : x \in {y \in Tabs \X UILines : y[2] \in breakpoint_lines[y[1]]}}

\* C6: on the bootstrap event of the session's own link, in Starting, the
\* controller sends one create for every line of every open tab's
\* breakpoint_lines (as line + 1), then one run request, the last of what it
\* sends, and is Running.
C6_BootstrapOrdering ==
  (Phase = "Starting" /\ evts # <<>> /\ Head(evts).ev = "bootstrap" /\ Head(evts).live) =>
    LET t == deliver(state)
        new == SubSeq(t.reqs, Len(reqs) + 1, Len(t.reqs))
        n == Len(new)
    IN /\ t.raised = "none"
       /\ n = Cardinality(ToSet) + 1
       /\ new[n].op = "continue"
       /\ \A i \in 1 .. (n - 1) : new[i].op = "break"
       /\ {<<new[i].file, new[i].line>> : i \in 1 .. (n - 1)} = ToSet
       /\ PhaseOf(t) = "Running"

\* The bootstrap handler has sent two creates or more and then the run.
C6_Witness ==
  /\ Phase = "Running"
  /\ Len(reqs) >= 3
  /\ Last(reqs).op = "continue"
  /\ \A i \in 1 .. (Len(reqs) - 1) : reqs[i].op = "break"

\* ---- C11 ---------------------------------------------------------------
\* C11: a breakpoint event delivered to a live session shows (enable) or
\* removes (disable) the marker of the breakpoint's own file at UI line
\* (line - 1), whichever tab is displayed, and changes no other marker.
C11_EventsAuthoritative ==
  (Connected(state) /\ evts # <<>> /\ Head(evts).ev \in {"enable", "disable"}) =>
    LET e == Head(evts)
        t == deliver(state)
    IN /\ t.raised = "none"
       /\ \A tab \in Tabs, l \in UILines :
            IF path[tab] = e.file /\ l = e.line - 1
            THEN (l \in t.markers[tab]) = (e.ev = "enable")
            ELSE (l \in t.markers[tab]) = (l \in markers[tab])

\* ---- C12 ---------------------------------------------------------------
\* C12: when the finished signal of the held runner's process is handled,
\* every tab's markers are exactly the lines (line - 1) of the enabled
\* breakpoints the store has for the tab's file, no tab has a selection, the
\* run and step buttons are disabled and the stop button is enabled.
C12_ResyncOnTermination ==
  (runner # None /\ proc = "exited") =>
    LET t == finished([state EXCEPT !.proc = "reaped"])
    IN /\ t.raised = "none"
       /\ \A tab \in Tabs :
            /\ t.markers[tab] =
                 {l \in UILines : path[tab] \in Files /\ bp_index.map[path[tab]][l + 1] = "en"}
            /\ t.selection[tab] = -1
       /\ \A a \in ActionNames : t.slots[a] = (a = "stop")

\* The process exited while the debuggee was halted at a line the controller
\* had selected (no request and no event left, so the line event was
\* delivered before finished() ran): finished() has cleared the selection,
\* kept the marker of an enabled breakpoint and holds a disabled one unmarked.
C12_Witness ==
  /\ proc = "reaped"
  /\ status = "finished"
  /\ runner = Held
  /\ current_tab # NoTab
  /\ bp_index.set
  /\ dstate = "wait"
  /\ reqs = <<>>
  /\ evts = <<>>
  /\ ~slots["run"]
  /\ \A tab \in Tabs : selection[tab] = -1
  /\ \E tab \in Tabs : markers[tab] # {} /\ bp_index.map[path[tab]][1] = "dis"

\* ---- C13 ---------------------------------------------------------------
\* C13: toggle_breakpoint on a tab with a file returns without raising in
\* every phase and flips the marker of the line.
C13_ToggleAnyPhase ==
  \A L \in UILines :
    (current_tab # NoTab /\ path[current_tab] # NoPath) =>
      LET t == toggle_breakpoint(state, L, current_tab)
      IN /\ t.raised = "none"
         /\ (L \in t.markers[current_tab]) # (L \in markers[current_tab])

\* ---- C14 ---------------------------------------------------------------
\* start() finds no tab, or a tab that has no path after the save.
NoDocument(saved) ==
  \/ current_tab = NoTab
  \/ path[current_tab] = NoPath /\ ~saved

\* C14: start() with no tab, or with a tab that has no path after the save,
\* starts no process and creates no client, does what stop() does, raises
\* nothing and leaves the controller Idle.
C14_StartWithoutDocument ==
  \A launched \in BOOLEAN, saved \in BOOLEAN, written \in BOOLEAN :
    NoDocument(saved) =>
      LET t == start(state, launched, saved, written)
      IN /\ t = stop(state)
         /\ PhaseOf(t) = "Idle"
         /\ t.runner = None
         /\ t.proc = "none"
         /\ t.orphaned = orphaned
         /\ t.debugger # "obj"
         /\ t.reqs = <<>>
         /\ ~t.read_only
         /\ ~t.inspector
         /\ t.raised = "none"

\* start() was called with the path-less tab displayed and ended in stop().
C14_Witness ==
  /\ Phase = "Idle"
  /\ current_tab # NoTab
  /\ path[current_tab] = NoPath
  /\ mode = "python"
  /\ debugger = "unset"

\* ---- C15 ---------------------------------------------------------------
\* C15: when the process fails to start, start() leaves the controller Idle,
\* without a runner, not read-only, with the error shown as the status; and
\* no command lets a LinkError escape.
C15_FailureForcesIdle ==
  /\ \A saved \in BOOLEAN :
       (runner = None /\ ~NoDocument(saved)) =>
         LET t == start(state, FALSE, saved, TRUE)
         IN /\ PhaseOf(t) = "Idle"
            /\ t.runner = None
            /\ ~t.read_only
            /\ t.status = "launch failed"
  /\ \A t \in Commands(state) : t.raised # "LinkError"

\* ---- C16 ---------------------------------------------------------------
\* C16: the stack, postmortem, ignore, clear, restart, call, return and
\* exception events are handled without raising in whatever phase they
\* arrive, and leave the phase, the runner, the process, the client, its
\* index, the requests in flight and every marker as they were.
C16_InertEvents ==
  (evts # <<>> /\ Head(evts).ev \in Reports) =>
    LET t == deliver(state)
    IN /\ t.raised = "none"
       /\ PhaseOf(t) = Phase
       /\ t.runner = runner
       /\ t.proc = proc
       /\ t.debugger = debugger
       /\ t.bp_index = bp_index
       /\ t.reqs = reqs
       /\ t.markers = markers
       /\ t.breakpoint_lines = breakpoint_lines
       /\ t.evts = Tail(evts)

\* A postmortem event is about to be handled while the session is Paused.
C16_Witness ==
  /\ Phase = "Paused"
  /\ evts # <<>>
  /\ Head(evts).ev = "postmortem"

\* ---- C17 ---------------------------------------------------------------
\* C17: start() called while a session is active leaves no process alive
\* that the controller does not hold.
C17_SingleSession ==
  \A saved \in BOOLEAN :
    (Phase # "Idle" /\ proc = "alive" /\ ~NoDocument(saved)) =>
      start(state, TRUE, saved, TRUE).orphaned = orphaned

\* ---- C18 ---------------------------------------------------------------
\* C18: in a bootstrapped session with nothing in flight, every tab with a
\* file shows a marker at UI line L exactly when the store has an enabled
\* breakpoint for the tab's file at line L + 1.
C18_MarkerStoreConsistency ==
  (Connected(state) /\ bp_index.set /\ dstate # "init" /\ reqs = <<>> /\ evts = <<>>) =>
    \A tab \in Tabs, L \in UILines :
      path[tab] # NoPath =>
        ((L \in markers[tab]) = (bp_index.map[path[tab]][L + 1] = "en"))

\* ---- C19 ---------------------------------------------------------------
\* C19: an event or a finished signal that arrives after stop() has dropped
\* the runner and the client is handled without raising, puts no request on
\* the link and leaves the controller Idle.
C19_LateEvents ==
  /\ (runner = None /\ evts # <<>>) =>
       LET t == deliver(state)
       IN t.raised = "none" /\ t.reqs = <<>> /\ PhaseOf(t) = "Idle"
  /\ (runner = None /\ late_finished > 0) =>
       LET t == finished([state EXCEPT !.late_finished = @ - 1])
       IN t.raised = "none" /\ t.reqs = <<>> /\ PhaseOf(t) = "Idle"

\* ---- C20 ---------------------------------------------------------------
\* The (file, line) pairs the next session's bootstrap sets, when the next
\* session is started from the Idle state s.
Reapplied(s) ==
  LET v == deliver(announce(start(s, TRUE, TRUE, TRUE)))
  IN {<<v.reqs[i].file, v.reqs[i].line>> :
        i \in {j \in 1 .. Len(v.reqs) : v.reqs[j].op = "break"}}

\* The enabled breakpoints the store has for the files of the open tabs.
EnabledNow ==
  {x \in {path[t] : t \in Tabs} \X BpLines :
     x[1] \in Files /\ bp_index.map[x[1]][x[2]] = "en"}

\* C20: the breakpoints the next session's bootstrap sets are the ones that
\* were enabled in the store when this session ended, be it by stop() or by
\* the process's end followed by stop().
C20_BreakpointsPersist ==
  (Connected(state) /\ reqs = <<>> /\ evts = <<>>) =>
    /\ Reapplied(stop(state)) = EnabledNow
    /\ Reapplied(stop(finished([state EXCEPT !.proc = "reaped"]))) = EnabledNow

\* A session's bootstrap has asked for a breakpoint and then for the run.
\* No tab had a breakpoint at first, so the breakpoint was toggled on in a
\* session before this one and carried over in breakpoint_lines.
C20_Witness ==
  /\ Connected(state)
  /\ bp_index.set
  /\ Len(reqs) >= 2
  /\ reqs[1].op = "break"
  /\ reqs[Len(reqs)].op = "continue"
  /\ \E tab \in Tabs :
       path[tab] = reqs[1].file /\ (reqs[1].line - 1) \in breakpoint_lines[tab]

====
